---- MODULE Spec2Model ----
(***************************************************************************)
(* The render job of the avatar video generator: POST /generate            *)
(* (app/main.py, generate_video) and composite_video (app/ai.py).          *)
(*                                                                         *)
(* Numbers.  The program computes in floating point; the model computes in *)
(* fixed point: a real v is the integer v * UNIT, angles are in            *)
(* thousandths of a turn, pixel coordinates are whole pixels.  int() is    *)
(* truncation towards zero (TruncDiv), Python's % is TLA+'s %.             *)
(* The raster content of a frame is not modelled: a frame is the ordered   *)
(* list of the sprites composited onto it with their position and size.    *)
(* The rotation applied to a sprite before compositing changes the raster  *)
(* only, so anim_angle (ai.py 508-534) is left out of the frame record.    *)
(***************************************************************************)
EXTENDS Integers, Sequences, FiniteSets, TLC

VARIABLES
    req,          \* the request body: duration_seconds, fps, seed, prompt, character_ids, character_settings
    pc,           \* where the handler is
    avatars,      \* generate_video: avatars, the native size <<w, h>> of each loaded sprite
    charSettings, \* generate_video: char_settings, sprite index (0-based) -> settings dict
    bgCalls,      \* number of backgrounds generated (get_bg_gen().generate)
    rng,          \* composite_video: the state of rng = random.Random(seed)
    motions,      \* composite_video: motions, one motion_data per sprite built so far
    used,         \* composite_video: the value of the local char_settings each motion was built from
    enrichErr,    \* per sprite built: whether enhance_character_animation raised
    ptLocal,      \* composite_video: the local variable path_type, "" while unbound
    tmpDirs,      \* the temporary directories that exist on disk
    framesDir,    \* composite_video: frames_dir, <<>> before tempfile.mkdtemp
    frameFiles,   \* the files of frames_dir: file name -> frame record
    rendered,     \* the frame indices for which frame_rgb.save ran, in the order it ran
    encoderRuns,  \* every invocation of the encoder: its arguments and outcome
    tmpFiles,     \* the video files in tempfile.gettempdir()
    renders,      \* the video files in storage/renders
    response,     \* the HTTP response of /generate, <<>> while the handler runs
    failure,      \* what raised out of the handler, "" while nothing did
    prevJob,      \* what the previous composite_video call of this process built, <<>> if none
    call,         \* a single call of a function of the program: its name and arguments, <<>> if none
    returned,     \* what the called code returned (or raised) to the call, <<>> before the return
    sampled,      \* what get_path_position returned to the call, <<>> before the return
    table,        \* the rows POST /characters added to the characters table
    reply,        \* the HTTP response to the call, <<>> while its handler runs
    bgGen,        \* main.py: the module-level _bg_gen of the process, <<>> for None
    bgLoads,      \* how many times the process constructed a BackgroundGenerator
    bgReturned,   \* the instances get_bg_gen has returned in the process
    history,      \* run_comfyui_workflow: the answers to its POST /prompt and to its
                  \* GET /history/{prompt_id} polls, in order
    forwarded     \* IPWhitelistMiddleware.dispatch: the requests it handed to call_next

vars == <<req, pc, avatars, charSettings, bgCalls, rng, motions, used, enrichErr, ptLocal,
          tmpDirs, framesDir, frameFiles, rendered, encoderRuns, tmpFiles, renders,
          response, failure, prevJob, call, returned, sampled,
          table, reply, bgGen, bgLoads, bgReturned, history, forwarded>>

\* what the process keeps between requests
procVars == <<bgGen, bgLoads, bgReturned>>

\* the variables of a single function call
fnVars == <<call, returned, sampled, table, reply, history, forwarded>>

---------------------------------------------------------------------------
(* Bounds of the model *)

MaxSprites == 2
MaxFps == 1

---------------------------------------------------------------------------
(* Fixed-point arithmetic *)

UNIT == 10 * 100

Min(a, b) == IF a <= b THEN a ELSE b
Max(a, b) == IF a >= b THEN a ELSE b

\* int(a / b) for b > 0: truncation towards zero
TruncDiv(a, b) == IF a >= 0 THEN a \div b ELSE -((-a) \div b)

\* a * b of two UNIT-scaled numbers
Mul(a, b) == TruncDiv(a * b, UNIT)

\* max(lo, min(hi, v))
Clamp(lo, hi, v) == Max(lo, Min(hi, v))

\* math.sqrt on whole numbers
Isqrt(v) == CHOOSE r \in 0..2000 : r * r <= v /\ (r + 1) * (r + 1) > v

\* math.sin of an angle in thousandths of a turn, UNIT-scaled (Bhaskara's formula)
SinMT(a) ==
    LET m == a % 1000
        h == m % 500
        p == h * (500 - h)
        v == (16000 * p) \div (1250000 - 4 * p)
    IN IF m < 500 THEN v ELSE -v

CosMT(a) == SinMT(a + 250)

\* radians (UNIT-scaled) to thousandths of a turn
RadToMT(r) == (r * 1000) \div 6283

\* thousandths of a turn to radians (UNIT-scaled)
MTToRad(m) == (m * 6283) \div 1000

---------------------------------------------------------------------------
(* Dictionaries: a dict is a function from its keys *)

Has(d, k) == k \in DOMAIN d
Get(d, k, default) == IF k \in DOMAIN d THEN d[k] ELSE default
Put(d, k, v) == [x \in DOMAIN d \cup {k} |-> IF x = k THEN v ELSE d[x]]
EmptyDict == [x \in {} |-> 0]

---------------------------------------------------------------------------
(* random.Random: a linear congruential stream stands for the Mersenne     *)
(* twister.  What is kept: the stream is a function of the seed, every     *)
(* draw advances the one shared state, a None seed takes OS entropy.       *)

RngMod == 32 * 32
RngStep(s) == (s * 421 + 3) % RngMod

\* random.Random(seed): seed is <<>> for None, <<n>> for the integer n
SeedRngIgnoringSeed(seed, entropy) == (entropy * 157 + 11) % RngMod
SeedRng(seed, entropy) ==
    IF seed = <<>> THEN (entropy * 157 + 11) % RngMod
    ELSE (seed[1] * 37 + 5) % RngMod

RECURSIVE Adv(_, _)
\* the state after k draws
Adv(s, k) == IF k = 0 THEN s ELSE Adv(RngStep(s), k - 1)

\* rng.random(), the k-th draw from state s: UNIT-scaled, in [0, UNIT)
R(s, k) == (Adv(s, k) * UNIT) \div RngMod

\* rng.uniform(a, b) from the draw r
Uniform(a, b, r) == a + Mul(b - a, r)
\* rng.randint(a, b) from the draw r
RandInt(a, b, r) == a + (r * (b - a + 1)) \div UNIT
\* rng.choice(seq) from the draw r
Choice(seq, r) == seq[1 + (r * Len(seq)) \div UNIT]

---------------------------------------------------------------------------
(* composite_video: building one sprite's motion path (ai.py 144-365)      *)
(* Every operator takes the rng state s at the start of the sprite's       *)
(* iteration and the number k of draws the iteration has made so far, and  *)
(* says how many draws it has made when it is done (n).                    *)

\* GenerateRequest.width, GenerateRequest.height (the defaults)
Width == 768
Height == 432

\* margin = 0.15 * min(width, height)
Margin == (15 * Min(Width, Height)) \div 100

ClampX(x) == Clamp(Margin, Width - Margin, x)
ClampY(y) == Clamp(Margin, Height - Margin, y)

\* fixed position: 8 points of micro-movement around the base (ai.py 153-170)
MicroPathBaseOnly(cs, s, k) == [points |-> << <<cs["position_x"], cs["position_y"]>> >>, n |-> k]
MicroPath(cs, s, k) ==
    LET bx == cs["position_x"]
        by == cs["position_y"]
        micro == Get(cs, "micro_movement", (Min(Width, Height) * 20) \div UNIT)
        Noise(p, f, i) == SinMT(RadToMT((p * f) \div 8 + R(s, k + 4 * p + i) * 10))
        Pt(p) == << bx + Mul(Mul(Noise(p, 6280, 1), Noise(p, 9420, 2)), micro),
                    by + Mul(Mul(Noise(p, 7850, 3), Noise(p, 5670, 4)), micro) >>
    IN [points |-> [q \in 1..8 |-> Pt(q - 1)], n |-> k + 32]

\* radius = move_range * (0.7 + rng.random() * 0.3)
RadiusFromHalf(mr, r) == Mul(mr, 500 + Mul(r, 500))
Radius(mr, r) == Mul(mr, 700 + Mul(r, 300))

\* p * 2 * math.pi / num_points, in thousandths of a turn
AnchorAngle(p, N) == (p * 1000) \div N

\* path_type == 'circle' (ai.py 184-194)
CircleAnchors(bx, by, mr, N, s, k) ==
    [q \in 1..N |->
        LET a == AnchorAngle(q - 1, N)
            radius == Radius(mr, R(s, k + q))
        IN << ClampX(bx + Mul(CosMT(a), radius)), ClampY(by + Mul(SinMT(a), radius)) >>]

\* path_type == 'figure8' (ai.py 196-206)
Figure8Anchors(bx, by, mr, N, s, k) ==
    [q \in 1..N |->
        LET a == AnchorAngle(q - 1, N)
            radius == Radius(mr, R(s, k + q))
        IN << ClampX(bx + Mul(Mul(SinMT(2 * a), radius), 500)),
              ClampY(by + Mul(SinMT(a), radius)) >>]

\* path_type == 'wave' (ai.py 208-220)
WaveAnchors(bx, by, mr, N) ==
    [q \in 1..N |->
        LET tt == ((q - 1) * 1000) \div N
        IN << ClampX(bx + Mul(mr, SinMT(2 * tt))),
              ClampY(by + Mul(Mul(mr, 300), SinMT(4 * tt))) >>]

\* the j-th key point of the organic path, j = 0..2 (ai.py 228-237)
OrganicKey(bx, by, mr, s, k, j) ==
    LET a == R(s, k + 2 * j + 1)
        distance == Mul(mr, 500 + Mul(R(s, k + 2 * j + 2), 500))
    IN << ClampX(bx + Mul(CosMT(a), distance)), ClampY(by + Mul(SinMT(a), distance)) >>

\* one intermediate point between two key points, from the draws rt and rd (ai.py 250-268)
Intermediate(k1, k2, mr, rt, rd) ==
    LET pd == Mul(Mul(mr, 200), rd - 500)
        dx == k2[1] - k1[1]
        dy == k2[2] - k1[2]
        length == Isqrt(dx * dx + dy * dy)
        perpx == IF length > 0 THEN TruncDiv((-dy) * UNIT, length) ELSE -dy
        perpy == IF length > 0 THEN TruncDiv(dx * UNIT, length) ELSE dx
    IN << ClampX(k1[1] + Mul(dx, rt) + Mul(perpx, pd)),
          ClampY(k1[2] + Mul(dy, rt) + Mul(perpy, pd)) >>

RECURSIVE OrganicSegments(_, _, _, _, _)
\* key point j and the 1-2 intermediate points after it, for j..2 (ai.py 240-268)
OrganicSegments(keys, mr, s, k, j) ==
    IF j > 3 THEN [points |-> <<>>, n |-> k]
    ELSE LET k1 == keys[j]
             k2 == keys[(j % 3) + 1]
             cnt == RandInt(1, 2, R(s, k + 1))
             inter == [i \in 1..cnt |->
                          Intermediate(k1, k2, mr, R(s, k + 2 * i), R(s, k + 2 * i + 1))]
             rest == OrganicSegments(keys, mr, s, k + 1 + 2 * cnt, j + 1)
         IN [points |-> <<k1>> \o inter \o rest.points, n |-> rest.n]

\* path_type 'organic', and any other tag (ai.py 222-268)
OrganicAnchors(bx, by, mr, s, k) ==
    LET keys == [j \in 1..3 |-> OrganicKey(bx, by, mr, s, k, j - 1)]
        segs == OrganicSegments(keys, mr, s, k + 6, 1)
    IN [points |-> << <<bx, by>> >> \o segs.points, n |-> segs.n]

\* one coordinate of the Catmull-Rom point at t = step / numSegments (ai.py 287-301)
CatmullRom(p0, p1, p2, p3, step, numSegments) ==
    LET t == (step * UNIT) \div numSegments
        t2 == Mul(t, t)
        t3 == Mul(t2, t)
    IN TruncDiv((2 * p1) * UNIT + (p2 - p0) * t
                  + (2 * p0 - 5 * p1 + 4 * p2 - p3) * t2
                  + (3 * p1 - p0 - 3 * p2 + p3) * t3,
                2 * UNIT)

\* anchors to control points: each anchor, then numSegments - 1 clamped
\* interpolated points towards the next anchor (ai.py 270-307, 334-365)
Spline(anchors, numSegments) ==
    LET L == Len(anchors)
        A(i) == anchors[(i % L) + 1]
        Pt(q) ==
            LET j == q \div numSegments
                step == q % numSegments
            IN IF step = 0 THEN A(j)
               ELSE << ClampX(CatmullRom(A(j - 1)[1], A(j)[1], A(j + 1)[1], A(j + 2)[1],
                                         step, numSegments)),
                       ClampY(CatmullRom(A(j - 1)[2], A(j)[2], A(j + 1)[2], A(j + 2)[2],
                                         step, numSegments)) >>
    IN [q \in 1..(L * numSegments) |-> Pt(q - 1)]

\* base position given, not fixed (ai.py 171-307).  angle is the local
\* variable angle as the branch leaves it, ptype the local path_type.
MovingPath(cs, angle0, s, k) ==
    LET bx == cs["position_x"]
        by == cs["position_y"]
        mr == Mul(Get(cs, "move_range", 400), Min(Width, Height))
        N == RandInt(6, 9, R(s, k + 1))
        drawn == Choice(<<"circle", "figure8", "organic", "wave">>, R(s, k + 2))
        ptype == Get(cs, "path_type", drawn)
        k2 == k + 2
        org == OrganicAnchors(bx, by, mr, s, k2)
    IN CASE ptype = "circle" ->
              [points |-> Spline(CircleAnchors(bx, by, mr, N, s, k2), 4),
               angle |-> MTToRad(AnchorAngle(N - 1, N)), ptype |-> ptype, n |-> k2 + N]
         [] ptype = "figure8" ->
              [points |-> Spline(Figure8Anchors(bx, by, mr, N, s, k2), 4),
               angle |-> MTToRad(AnchorAngle(N - 1, N)), ptype |-> ptype, n |-> k2 + N]
         [] ptype = "wave" ->
              [points |-> Spline(WaveAnchors(bx, by, mr, N), 4),
               angle |-> angle0, ptype |-> ptype, n |-> k2]
         [] OTHER ->
              [points |-> Spline(org.points, 4),
               angle |-> MTToRad(R(s, k2 + 5)), ptype |-> ptype, n |-> org.n]

\* no base position: the fully random path (ai.py 308-365)
RandomPath(s, k) ==
    LET nk == RandInt(4, 6, R(s, k + 1))
        raw == [p \in 1..nk |->
                   << Uniform(Margin, Width - Margin, R(s, k + 2 * p)),
                      Uniform(Margin, Height - Margin, R(s, k + 2 * p + 1)) >>]
        first == raw[1]
        last == raw[nk]
        dx == first[1] - last[1]
        dy == first[2] - last[2]
        far == Isqrt(dx * dx + dy * dy) > Mul(Min(Width, Height), 200)
        keys == IF far
                THEN [raw EXCEPT ![nk] = << first[1] + Mul(last[1] - first[1], 200),
                                            first[2] + Mul(last[2] - first[2], 200) >>]
                ELSE raw
    IN [points |-> Spline(keys, 5), n |-> k + 1 + 2 * nk]

---------------------------------------------------------------------------
(* smpl_avatar.py: the settings-enrichment collaborator                    *)

\* ai.py 16-20: smpl_avatar imports numpy, torch and PIL, which ai.py needs too
SMPL_AVAILABLE == TRUE

\* np.random.seed(seed) and np.random.RandomState(seed) accept 0 .. 2**32 - 1 only;
\* the seeds of the model are far below 2**32
NumpySeedRaises(seed) == seed # <<>> /\ seed[1] < 0

\* np.random.RandomState(seed), RandomState() when seed is None
NumpySeed(seed, entropy) ==
    IF seed = <<>> THEN (entropy * 211 + 17) % RngMod
    ELSE (seed[1] * 53 + 29) % RngMod

\* extract_avatar_motion_data, the image-based fallback (smpl_avatar.py 211-221)
ExtractMotionData(seed, entropy) ==
    LET s == NumpySeed(seed, entropy)
    IN [move_range |-> Uniform(300, 500, R(s, 1)),
        breathe_amount |-> Uniform(20, 40, R(s, 2)),
        breathe_speed |-> Uniform(800, 1200, R(s, 3)),
        suggested_path |-> Choice(<<"organic", "circle", "figure8", "wave">>, R(s, 4))]

\* smpl_avatar.py 246-257: fill the options that are absent
FillGaps(cs, md) ==
    LET a == IF Has(cs, "move_range") THEN cs ELSE Put(cs, "move_range", md.move_range)
        b == IF Has(a, "breathe_amount") THEN a ELSE Put(a, "breathe_amount", md.breathe_amount)
        c == IF Has(b, "breathe_speed") THEN b ELSE Put(b, "breathe_speed", md.breathe_speed)
    IN IF Has(c, "path_type") THEN c ELSE Put(c, "path_type", md.suggested_path)

\* smpl_avatar.py 260-278: the prompt is the set of keyword groups it contains
ApplyPrompt(cs, prompt) ==
    LET Scaled(d, key, dflt, f, lo, hi) == Put(d, key, Clamp(lo, hi, Mul(Get(d, key, dflt), f)))
        a == IF "energetic" \in prompt
             THEN Scaled(Scaled(cs, "breathe_speed", 1000, 1500, 500, 2000),
                         "move_range", 400, 1300, 100, 800)
             ELSE cs
        b == IF "calm" \in prompt
             THEN Scaled(Scaled(a, "breathe_speed", 1000, 700, 500, 2000),
                         "move_range", 400, 700, 100, 800)
             ELSE a
        c == IF "dance" \in prompt
             THEN Scaled(Put(b, "path_type", "figure8"), "move_range", 400, 1500, 100, 800)
             ELSE b
    IN IF "float" \in prompt
       THEN Scaled(Put(c, "path_type", "wave"), "breathe_amount", 30, 1500, 10, 100)
       ELSE c

\* enhance_character_animation when it returns (smpl_avatar.py 223-280)
Enhance(cs, prompt, seed, entropy) ==
    ApplyPrompt(FillGaps(cs, ExtractMotionData(seed, entropy)), prompt)

---------------------------------------------------------------------------
(* composite_video: one iteration of the motion loop (ai.py 120-389)       *)

\* ai.py 124-135: the local char_settings after the try block
EnrichedHalfway(cs, prompt, seed, entropy) ==
    IF SMPL_AVAILABLE /\ ~NumpySeedRaises(seed) THEN Enhance(cs, prompt, seed, entropy)
    ELSE ApplyPrompt(cs, prompt)
EnrichedOrOriginal(cs, prompt, seed, entropy) ==
    IF SMPL_AVAILABLE /\ ~NumpySeedRaises(seed) THEN Enhance(cs, prompt, seed, entropy) ELSE cs

\* ai.py 137-389 for the settings cs, the local path_type pt and the rng state s.
\* dict.get evaluates its default, so every rng default is drawn whether or
\* not the option is present.
BuildMotion(cs, pt, s) ==
    LET scale0 == Get(cs, "scale", Uniform(350, 600, R(s, 1)))
        variation == Get(cs, "scale_variation", Uniform(800, 1250, R(s, 2)))
        angle0 == Get(cs, "rotation", Uniform(-8000, 8000, R(s, 3)))
        positioned == Has(cs, "position_x") /\ Has(cs, "position_y")
        fixed == positioned /\ Get(cs, "fixed_position", FALSE)
        mp == MicroPath(cs, s, 3)
        mv == MovingPath(cs, angle0, s, 3)
        rp == RandomPath(s, 3)
        points == IF fixed THEN mp.points ELSE IF positioned THEN mv.points ELSE rp.points
        n == IF fixed THEN mp.n ELSE IF positioned THEN mv.n ELSE rp.n
        angle == IF positioned /\ ~fixed THEN mv.angle ELSE angle0
        pt2 == IF positioned /\ ~fixed THEN mv.ptype ELSE pt
        breathe_amount == Get(cs, "breathe_amount", Uniform(20, 50, R(s, n + 1)))
        breathe_speed == Get(cs, "breathe_speed", Uniform(800, 1300, R(s, n + 2)))
    IN [motion |->
           [scale_base |-> scale0,
            scale_target |-> Mul(scale0, variation),
            angle_base |-> angle,
            control_points |-> points,
            breathe_amount |-> breathe_amount,
            breathe_speed |-> breathe_speed,
            pulse_amount |-> Mul(breathe_amount, 300),
            pulse_speed |-> Mul(breathe_speed, 2700),
            rotation_speed |-> Get(cs, "rotation_speed", Uniform(700, 1300, R(s, n + 3))),
            path_type |-> IF pt2 # "" THEN pt2 ELSE "organic"],
        ptLocal |-> pt2,
        rng |-> Adv(s, n + 3)]

---------------------------------------------------------------------------
(* composite_video: sampling and the per-frame transform (ai.py 396-542)   *)

\* Python indexing of a list: 0-based, a negative index counts from the end
PyIndex(seq, i) == IF i >= 0 THEN seq[i + 1] ELSE seq[Len(seq) + i + 1]

\* cubic ease-in-out of a UNIT-scaled fraction (ai.py 417-420, 460-463)
Ease(x) ==
    IF 2 * x < UNIT THEN Mul(Mul(4 * x, x), x)
    ELSE LET u == 2 * UNIT - 2 * x IN UNIT - TruncDiv(Mul(Mul(u, u), u), 2)

\* get_path_position(points, t), t UNIT-scaled (ai.py 396-426)
get_path_position(points, t) ==
    IF Len(points) = 0 THEN <<0, 0>>
    ELSE LET t_looped == t - TruncDiv(t, UNIT) * UNIT
             num_segments == Len(points) - 1
             segment_idx == Min(TruncDiv(t_looped * num_segments, UNIT), num_segments - 1)
             segment_t == Ease(t_looped * num_segments - segment_idx * UNIT)
             p1 == PyIndex(points, segment_idx)
             p2 == PyIndex(points, segment_idx + 1)
         IN << p1[1] + Mul(p2[1] - p1[1], segment_t), p1[2] + Mul(p2[2] - p1[2], segment_t) >>

\* n_frames = duration_s * fps (ai.py 107)
NFramesShort(duration_s, fps) == duration_s * fps - 1
NFrames(duration_s, fps) == duration_s * fps

\* t = f / (n_frames - 1 if n_frames > 1 else 1) (ai.py 431)
FrameTime(f, n_frames) == (f * UNIT) \div (IF n_frames > 1 THEN n_frames - 1 ELSE 1)

\* the time the sprite is drawn at: (t * path_speed * 1.5) % 1.0, eased (ai.py 454-463)
DrawTime(t, path_speed) == Ease(((Mul(t, path_speed) * 3) \div 2) % UNIT)

\* sx and sy at frame time t (ai.py 488-506)
ScaleXY(motion, t) ==
    LET breathe == Mul(motion.breathe_amount, SinMT(Mul(t, motion.breathe_speed)))
        pulse == Mul(motion.pulse_amount, SinMT(Mul(t, motion.pulse_speed) + RadToMT(700)))
        micro == Mul(Mul(motion.breathe_amount, 100), SinMT(Mul(t, 3700) + RadToMT(1300)))
        scale_t == (UNIT - CosMT(t \div 2)) \div 2
        base_scale == motion.scale_base + Mul(motion.scale_target - motion.scale_base, scale_t)
    IN << Mul(base_scale, UNIT + breathe + pulse + micro),
          Mul(base_scale, UNIT + Mul(breathe, 800) + pulse + Mul(micro, 1200)) >>

\* aw < 5 or ah < 5 (ai.py 541)
TooSmallBelowFour(aw, ah) == aw < 4 \/ ah < 4
TooSmall(aw, ah) == aw < 5 \/ ah < 5

\* what the frame loop computes for sprite i (1-based) at frame time t:
\* the position it is drawn at and its target size (ai.py 450-538)
Transform(motion, settings, size, t) ==
    LET pos == get_path_position(motion.control_points,
                                 DrawTime(t, Get(settings, "path_speed", UNIT)))
        sc == ScaleXY(motion, t)
    IN [x |-> pos[1], y |-> pos[2],
        aw |-> TruncDiv(size[1] * sc[1], UNIT), ah |-> TruncDiv(size[2] * sc[2], UNIT)]

\* sorted_avatars after the stable sort by the sampled y (ai.py 437-447):
\* the sprite indices (1-based), keys[i] the sort key of sprite i
StableSort(keys) ==
    LET n == Len(keys)
        Before(i, j) == keys[i] < keys[j] \/ (keys[i] = keys[j] /\ i < j)
        Rank(i) == Cardinality({j \in 1..n : Before(j, i)})
    IN [r \in 1..n |-> CHOOSE i \in 1..n : Rank(i) = r - 1]

\* the order in which frame f composites the sprites (ai.py 436-447)
DepthOrder(ms, t) ==
    StableSort([i \in 1..Len(ms) |->
        get_path_position(ms[i].control_points, t)[2]])

\* f"f_{f:05d}.png": the digits of the zero-padded index
FrameName(f) ==
    << (f \div 10000) % 10, (f \div 1000) % 10, (f \div 100) % 10, (f \div 10) % 10, f % 10 >>

RECURSIVE ReadFrom(_, _)
\* what ffmpeg's image sequence input f_%05d.png reads: the files numbered
\* k, k+1, ... up to the first number that is missing (ai.py 568)
ReadFrom(files, k) ==
    IF FrameName(k) \in DOMAIN files THEN <<files[FrameName(k)]>> \o ReadFrom(files, k + 1)
    ELSE <<>>

---------------------------------------------------------------------------
(* The stored characters and the requests                                  *)

\* the columns a new Character row gets (models.py 15-26); meta is NULL
ColumnDefaults ==
    [scale |-> 1000, rotation |-> 0, fixed_position |-> FALSE, move_range |-> 400,
     breathe_amount |-> 30, breathe_speed |-> 1000, tilt_factor |-> 150,
     path_type |-> "organic"]

\* the characters table: row id -> the size of the image /generate loads,
\* the non-NULL columns and meta (EmptyDict for NULL)
Characters ==
    << [size |-> <<100, 200>>, cols |-> ColumnDefaults, meta |-> EmptyDict],
       [size |-> <<10, 10>>,
        cols |-> [ColumnDefaults EXCEPT !.scale = 480, !.rotation = 15000, !.path_type = "circle"],
        meta |-> [position_x |-> 300, position_y |-> 150]],
       [size |-> <<120, 120>>,
        cols |-> [ColumnDefaults EXCEPT !.fixed_position = TRUE],
        meta |-> [position_x |-> 400, position_y |-> 250]] >>

\* GenerateRequest.character_settings: None, or settings for character 2
RequestSettings ==
    { EmptyDict,
      [c \in {2} |-> [scale |-> 480, scale_variation |-> 1250, position_x |-> 300,
                      position_y |-> 200, path_type |-> "circle", path_speed |-> 2000]] }

\* character_ids: the ids of up to MaxSprites stored characters, or an unknown id
IdSets ==
    {ids \in SUBSET DOMAIN Characters : Cardinality(ids) <= MaxSprites}
        \cup {{Len(Characters) + 1}}

\* duration_seconds must be 10-25 (main.py 288)
MinDuration == 10
MaxDuration == 25

Durations == {5, MinDuration, MaxDuration, MaxDuration + 1}
Seeds == {<<>>, <<7>>, <<-1>>}
Prompts == {{}, {"dance"}}
Entropies == {1, 2}

\* the request bodies; a client sends settings only for characters it asks for
Requests ==
    {r \in [duration_seconds : Durations, fps : 1..MaxFps, seed : Seeds, prompt : Prompts,
            character_ids : IdSets, character_settings : RequestSettings] :
        DOMAIN r.character_settings \subseteq r.character_ids}

RECURSIVE Ascending(_)
\* the rows of a set of ids in id order
Ascending(ids) ==
    IF ids = {} THEN <<>>
    ELSE LET m == CHOOSE x \in ids : \A y \in ids : x <= y
         IN <<m>> \o Ascending(ids \ {m})

\* db.query(Character).filter(Character.id.in_(ids)).all() (main.py 292-293)
QueryCharacters(ids) == Ascending(ids \cap DOMAIN Characters)

\* the settings /generate derives from the stored row (main.py 315-341)
StoredSettings(ch) ==
    LET c == ch.cols
        a == IF Has(c, "scale") /\ c.scale # 1000 THEN Put(EmptyDict, "scale", c.scale)
             ELSE EmptyDict
        b == IF Has(c, "rotation") /\ c.rotation # 0 THEN Put(a, "rotation", c.rotation) ELSE a
        keys == {"fixed_position", "move_range", "breathe_amount", "breathe_speed",
                 "tilt_factor", "path_type"} \cap DOMAIN c
        d == [k \in DOMAIN b \cup keys |-> IF k \in keys THEN c[k] ELSE b[k]]
    IN IF Has(ch.meta, "position_x") /\ Has(ch.meta, "position_y")
       THEN Put(Put(d, "position_x", ch.meta.position_x), "position_y", ch.meta.position_y)
       ELSE d

\* char_settings as /generate builds it: sprite index (0-based) -> settings;
\* a sprite whose derived settings are empty gets no entry (main.py 299-344)
MergeSettings(chars, requested) ==
    LET One(i) == IF chars[i + 1] \in DOMAIN requested THEN requested[chars[i + 1]]
                  ELSE StoredSettings(Characters[chars[i + 1]])
        present == {i \in 0..(Len(chars) - 1) :
                       chars[i + 1] \in DOMAIN requested \/ DOMAIN One(i) # {}}
    IN [i \in present |-> One(i)]

\* character_settings.get(i, {}) (ai.py 122, 451)
SettingsOf(settings, i) == IF i \in DOMAIN settings THEN settings[i] ELSE EmptyDict

---------------------------------------------------------------------------
(* POST /generate, step by step                                            *)

NoJob == <<>>

\* no single function call is under way
\* a process that has served no request: _bg_gen = None (main.py 111)
FreshProcess == bgGen = <<>> /\ bgLoads = 0 /\ bgReturned = {}

NoCall ==
    /\ call = <<>> /\ returned = <<>> /\ sampled = <<>> /\ table = <<>> /\ reply = <<>>
    /\ history = <<>> /\ forwarded = <<>>

Fresh(r) ==
    /\ req = r
    /\ pc = "Received"
    /\ avatars = <<>>
    /\ charSettings = EmptyDict
    /\ bgCalls = 0
    /\ rng = 0
    /\ motions = <<>>
    /\ used = <<>>
    /\ enrichErr = <<>>
    /\ ptLocal = ""
    /\ framesDir = <<>>
    /\ frameFiles = EmptyDict
    /\ rendered = <<>>
    /\ encoderRuns = <<>>
    /\ response = <<>>
    /\ failure = ""

Init ==
    /\ \E r \in Requests : Fresh(r)
    /\ tmpDirs = {}
    /\ tmpFiles = {}
    /\ renders = {}
    /\ prevJob = NoJob
    /\ NoCall
    /\ FreshProcess

n_frames == NFrames(req.duration_seconds, req.fps)

\* raise HTTPException(status_code=400, ...) (main.py 289, 295)
Reject(detail) ==
    /\ pc' = "Rejected"
    /\ response' = [status |-> 400, detail |-> detail]

\* an exception leaves generate_video: the framework answers 500
Raise(what) ==
    /\ pc' = "Failed"
    /\ failure' = what
    /\ response' = [status |-> 500]

\* if not (10 <= req.duration_seconds <= 25) (main.py 288)
DurationAllowedOpenEnd(d) == MinDuration <= d /\ d < MaxDuration
DurationAllowed(d) == MinDuration <= d /\ d <= MaxDuration

\* main.py 288-289
ValidateDuration ==
    /\ pc = "Received"
    /\ IF DurationAllowed(req.duration_seconds)
       THEN pc' = "Validated" /\ UNCHANGED response
       ELSE Reject("duration_seconds must be 10-25")
    /\ UNCHANGED <<req, avatars, charSettings, bgCalls, rng, motions, used, enrichErr,
                   ptLocal, tmpDirs, framesDir, frameFiles, rendered, encoderRuns,
                   tmpFiles, renders, failure, prevJob>>
    /\ UNCHANGED fnVars
    /\ UNCHANGED procVars

\* main.py 291-344
LoadCharacters ==
    /\ pc = "Validated"
    /\ LET chars == QueryCharacters(req.character_ids)
       IN IF chars = <<>>
          THEN /\ Reject("No valid characters found")
               /\ UNCHANGED <<avatars, charSettings>>
          ELSE /\ avatars' = [i \in 1..Len(chars) |-> Characters[chars[i]].size]
               /\ charSettings' = MergeSettings(chars, req.character_settings)
               /\ pc' = "Loaded"
               /\ UNCHANGED response
    /\ UNCHANGED <<req, bgCalls, rng, motions, used, enrichErr, ptLocal, tmpDirs,
                   framesDir, frameFiles, rendered, encoderRuns, tmpFiles, renders,
                   failure, prevJob>>
    /\ UNCHANGED fnVars
    /\ UNCHANGED procVars

\* if _bg_gen is None (main.py 114)
IsNoneAlways(g) == TRUE
IsNone(g) == g = <<>>

\* get_bg_gen(): the instance it returns and the module state it leaves
\* (main.py 112-151).  The route handlers are coroutines of the one event loop
\* of the process and get_bg_gen does not await, so it runs undivided.
get_bg_gen(g, loads) ==
    IF IsNone(g) THEN [instance |-> loads + 1, gen |-> <<loads + 1>>, loads |-> loads + 1]
    ELSE [instance |-> g[1], gen |-> g, loads |-> loads]

\* bg = get_bg_gen().generate(...) (main.py 346-348)
GenerateBackground ==
    /\ pc = "Loaded"
    /\ bgCalls' = bgCalls + 1
    /\ LET got == get_bg_gen(bgGen, bgLoads)
       IN /\ bgGen' = got.gen
          /\ bgLoads' = got.loads
          /\ bgReturned' = bgReturned \cup {got.instance}
    /\ pc' = "BgReady"
    /\ UNCHANGED <<req, avatars, charSettings, rng, motions, used, enrichErr, ptLocal,
                   tmpDirs, framesDir, frameFiles, rendered, encoderRuns, tmpFiles,
                   renders, response, failure, prevJob>>
    /\ UNCHANGED fnVars

\* composite_video is entered: rng = random.Random(seed) (ai.py 106-118)
StartComposite ==
    /\ pc = "BgReady"
    /\ \E entropy \in Entropies : rng' = SeedRng(req.seed, entropy)
    /\ pc' = "Building"
    /\ UNCHANGED <<req, avatars, charSettings, bgCalls, motions, used, enrichErr, ptLocal,
                   tmpDirs, framesDir, frameFiles, rendered, encoderRuns, tmpFiles,
                   renders, response, failure, prevJob>>
    /\ UNCHANGED fnVars
    /\ UNCHANGED procVars

\* one iteration of for i, av in enumerate(avatars) (ai.py 120-389)
BuildSprite ==
    /\ pc = "Building"
    /\ Len(motions) < Len(avatars)
    /\ \E entropy \in Entropies :
         LET i == Len(motions)
             original == SettingsOf(charSettings, i)
             cs == EnrichedOrOriginal(original, req.prompt, req.seed, entropy)
             built == BuildMotion(cs, ptLocal, rng)
         IN /\ motions' = Append(motions, built.motion)
            /\ used' = Append(used, cs)
            /\ enrichErr' = Append(enrichErr, SMPL_AVAILABLE /\ NumpySeedRaises(req.seed))
            /\ ptLocal' = built.ptLocal
            /\ rng' = built.rng
    /\ UNCHANGED <<req, pc, avatars, charSettings, bgCalls, tmpDirs, framesDir, frameFiles,
                   rendered, encoderRuns, tmpFiles, renders, response, failure, prevJob>>
    /\ UNCHANGED fnVars
    /\ UNCHANGED procVars

\* frames_dir = tempfile.mkdtemp(prefix='frames_'): a directory that did not exist (ai.py 391)
MakeFramesDir ==
    /\ pc = "Building"
    /\ Len(motions) = Len(avatars)
    /\ LET d == CHOOSE k \in 1..(Cardinality(tmpDirs) + 1) : k \notin tmpDirs
       IN /\ framesDir' = <<d>>
          /\ tmpDirs' = tmpDirs \cup {d}
    /\ frameFiles' = EmptyDict
    /\ pc' = "Rendering"
    /\ UNCHANGED <<req, avatars, charSettings, bgCalls, rng, motions, used, enrichErr,
                   ptLocal, rendered, encoderRuns, tmpFiles, renders, response, failure,
                   prevJob>>
    /\ UNCHANGED fnVars
    /\ UNCHANGED procVars

\* the loop variable f of for f in range(n_frames) (ai.py 429)
FrameIndexBackwards(done, n) == n - 1 - done
FrameIndex(done, n) == done

\* the sprites frame f composites, in compositing order, with the position
\* and size each is drawn at (ai.py 436-555)
Composited(f) ==
    LET t == FrameTime(f, n_frames)
        order == DepthOrder(motions, t)
        Tr(i) == Transform(motions[i], SettingsOf(charSettings, i - 1), avatars[i], t)
        kept == SelectSeq(order, LAMBDA i : ~TooSmall(Tr(i).aw, Tr(i).ah))
    IN [k \in 1..Len(kept) |->
           [sprite |-> kept[k], x |-> Tr(kept[k]).x, y |-> Tr(kept[k]).y,
            aw |-> Tr(kept[k]).aw, ah |-> Tr(kept[k]).ah]]

\* one iteration of the frame loop (ai.py 429-560).  resize, rotate and
\* alpha_composite may raise; nothing in the loop catches it.
RenderFrame ==
    /\ pc = "Rendering"
    /\ Len(rendered) < n_frames
    /\ LET f == FrameIndex(Len(rendered), n_frames)
           drawn == Composited(f)
       IN \E raises \in BOOLEAN :
            IF raises
            THEN /\ Len(drawn) > 0
                 /\ Raise("sprite")
                 /\ UNCHANGED <<frameFiles, rendered>>
            ELSE /\ frameFiles' = Put(frameFiles, FrameName(f), [index |-> f, drawn |-> drawn])
                 /\ rendered' = Append(rendered, f)
                 /\ UNCHANGED <<pc, response, failure>>
    /\ UNCHANGED <<req, avatars, charSettings, bgCalls, rng, motions, used, enrichErr,
                   ptLocal, tmpDirs, framesDir, encoderRuns, tmpFiles, renders, prevJob>>
    /\ UNCHANGED fnVars
    /\ UNCHANGED procVars

\* rng.randrange(1_000_000) names the output scene_<n>.mp4 (ai.py 563)
OutName(s) == R(s, 1) * 1000

\* .run(quiet=True) raises ffmpeg.Error, or FileNotFoundError when the binary
\* is missing; nothing up to the route handler catches it (ai.py 586, main.py 352)
EncoderFailureIgnored ==
    /\ pc' = "Encoded"
    /\ UNCHANGED <<response, failure>>
EncoderFailed == Raise("encode")

\* the encoder run and the return (ai.py 562-589)
Encode ==
    /\ pc = "Rendering"
    /\ Len(rendered) = n_frames
    /\ rng' = Adv(rng, 1)
    /\ \E ok \in BOOLEAN :
         /\ encoderRuns' = Append(encoderRuns,
                                  [input |-> ReadFrom(frameFiles, 0), framerate |-> req.fps,
                                   out |-> OutName(rng), ok |-> ok])
         /\ IF ok
            THEN /\ tmpFiles' = tmpFiles \cup {OutName(rng)}
                 /\ pc' = "Encoded"
                 /\ UNCHANGED <<response, failure>>
            ELSE /\ EncoderFailed
                 /\ UNCHANGED tmpFiles
    /\ UNCHANGED <<req, avatars, charSettings, bgCalls, motions, used, enrichErr, ptLocal,
                   tmpDirs, framesDir, frameFiles, rendered, renders, prevJob>>
    /\ UNCHANGED fnVars
    /\ UNCHANGED procVars

\* os.replace(out_path, final_path); return {'video_path': final_path} (main.py 363-371)
MoveToRenders ==
    /\ pc = "Encoded"
    /\ LET out == encoderRuns[Len(encoderRuns)].out
       IN /\ tmpFiles' = tmpFiles \ {out}
          /\ renders' = renders \cup {out}
          /\ response' = [status |-> 200, video_path |-> out]
    /\ pc' = "Done"
    /\ UNCHANGED <<req, avatars, charSettings, bgCalls, rng, motions, used, enrichErr,
                   ptLocal, tmpDirs, framesDir, frameFiles, rendered, encoderRuns,
                   failure, prevJob>>
    /\ UNCHANGED fnVars
    /\ UNCHANGED procVars

Next ==
    \/ ValidateDuration
    \/ LoadCharacters
    \/ GenerateBackground
    \/ StartComposite
    \/ BuildSprite
    \/ MakeFramesDir
    \/ RenderFrame
    \/ Encode
    \/ MoveToRenders

Spec == Init /\ [][Next]_vars

---------------------------------------------------------------------------
(* Two consecutive jobs of one process: what a job leaves behind and what  *)
(* the next one starts from.                                               *)

\* the requests of the two-job specification: valid, stored settings only
PairRequests ==
    {r \in Requests :
        /\ r.duration_seconds = MinDuration
        /\ r.fps = 1
        /\ r.character_settings = EmptyDict
        /\ r.seed \in {<<>>, <<7>>}
        /\ r.prompt \in {{}, {"dance"}}
        /\ r.character_ids \in {{2}, {1, 3}, {2, 3}}}

InitPair ==
    /\ \E r \in PairRequests : Fresh(r)
    /\ tmpDirs = {}
    /\ tmpFiles = {}
    /\ renders = {}
    /\ prevJob = NoJob
    /\ NoCall
    /\ FreshProcess

\* the handler has answered and the next POST /generate arrives (main.py 277-278);
\* the disk keeps what the finished job left on it
NewRequest ==
    /\ pc \in {"Done", "Failed", "Rejected"}
    /\ prevJob = NoJob
    /\ prevJob' = [seed |-> req.seed, prompt |-> req.prompt, settings |-> charSettings,
                   sprites |-> Len(avatars), motions |-> motions, framesDir |-> framesDir,
                   encoderRuns |-> encoderRuns]
    /\ \E r \in PairRequests :
         /\ req' = r
         /\ pc' = "Received"
         /\ avatars' = <<>>
         /\ charSettings' = EmptyDict
         /\ bgCalls' = 0
         /\ rng' = 0
         /\ motions' = <<>>
         /\ used' = <<>>
         /\ enrichErr' = <<>>
         /\ ptLocal' = ""
         /\ framesDir' = <<>>
         /\ frameFiles' = EmptyDict
         /\ rendered' = <<>>
         /\ encoderRuns' = <<>>
         /\ response' = <<>>
         /\ failure' = ""
    /\ UNCHANGED <<tmpDirs, tmpFiles, renders>>
    /\ UNCHANGED fnVars
    /\ UNCHANGED procVars

NextPair == Next \/ NewRequest

SpecPair == InitPair /\ [][NextPair]_vars

---------------------------------------------------------------------------
(* One sprite's path built and sampled on its own: the motion loop body    *)
(* (ai.py 137-389) for given settings on a freshly seeded rng, then        *)
(* get_path_position (ai.py 396-426) on the path it built.                 *)

\* an option of the settings dict: <<>> when absent, <<v>> when present
WithOption(d, key, opt) == IF opt = <<>> THEN d ELSE Put(d, key, opt[1])

\* a per-sprite settings dict (ai.py 138-175 reads these keys)
SettingsWith(pos, fixed, ptype, mrange, rot) ==
    LET a == IF pos = <<>> THEN EmptyDict
             ELSE Put(Put(EmptyDict, "position_x", pos[1]), "position_y", pos[2])
    IN WithOption(WithOption(WithOption(WithOption(a, "fixed_position", fixed),
                                        "path_type", ptype), "move_range", mrange),
                  "rotation", rot)

\* base positions: none, outside the margin box, on its corner, inside it
BasePositions == {<<>>, <<10, 420>>, <<64, 64>>, <<100, 100>>, <<300, 150>>, <<384, 216>>}
\* move_range as the fraction of the smaller canvas side: absent (0.4), 0.1, 100 / 432
MoveRanges == {<<>>, <<100>>, <<232>>}
PathTypes == {<<>>, <<"circle">>, <<"figure8">>, <<"wave">>, <<"organic">>}
Rotations == {<<>>, <<15000>>}
\* the sampling parameter, UNIT-scaled
Taus == {-1250, -250, 0, 250, 700, 999}
CallSeeds == {3, 7}

\* the calls: fixed_position is sent with or without a position; the style
\* options are read only for a moving sprite with a base position
PathCalls ==
    {c \in [settings : {SettingsWith(pos, fixed, ptype, mrange, rot) :
                            pos \in BasePositions, fixed \in {<<>>, <<TRUE>>},
                            ptype \in PathTypes, mrange \in MoveRanges, rot \in Rotations},
            seed : CallSeeds, tau : Taus] :
        (Has(c.settings, "fixed_position") \/ ~Has(c.settings, "position_x"))
            => (~Has(c.settings, "path_type") /\ ~Has(c.settings, "move_range"))}

\* no render job is under way
Idle ==
    /\ req = <<>>
    /\ pc = "Idle"
    /\ avatars = <<>>
    /\ charSettings = EmptyDict
    /\ bgCalls = 0
    /\ rng = 0
    /\ motions = <<>>
    /\ used = <<>>
    /\ enrichErr = <<>>
    /\ ptLocal = ""
    /\ tmpDirs = {}
    /\ framesDir = <<>>
    /\ frameFiles = EmptyDict
    /\ rendered = <<>>
    /\ encoderRuns = <<>>
    /\ tmpFiles = {}
    /\ renders = {}
    /\ response = <<>>
    /\ failure = ""
    /\ prevJob = NoJob

jobVars == <<req, pc, avatars, charSettings, bgCalls, rng, motions, used, enrichErr, ptLocal,
             tmpDirs, framesDir, frameFiles, rendered, encoderRuns, tmpFiles, renders,
             response, failure, prevJob>>

InitPath ==
    /\ Idle
    /\ FreshProcess
    /\ call \in PathCalls
    /\ returned = <<>>
    /\ sampled = <<>>
    /\ table = <<>>
    /\ reply = <<>>
    /\ history = <<>>
    /\ forwarded = <<>>

\* the motion loop body for the first sprite of a call seeded with call.seed (ai.py 137-389)
BuildPath ==
    /\ call # <<>>
    /\ returned = <<>>
    /\ returned' = BuildMotion(call.settings, "", SeedRng(<<call.seed>>, 1)).motion
    /\ UNCHANGED <<call, sampled, table, reply>>
    /\ UNCHANGED <<history, forwarded>>
    /\ UNCHANGED jobVars
    /\ UNCHANGED procVars

\* get_path_position(control_points, tau) and get_path_position(control_points, tau + 1)
SamplePath ==
    /\ returned # <<>>
    /\ sampled = <<>>
    /\ sampled' = [at |-> get_path_position(returned.control_points, call.tau),
                   next |-> get_path_position(returned.control_points, call.tau + UNIT)]
    /\ UNCHANGED <<call, returned, table, reply>>
    /\ UNCHANGED <<history, forwarded>>
    /\ UNCHANGED jobVars
    /\ UNCHANGED procVars

NextPath == BuildPath \/ SamplePath

SpecPath == InitPath /\ [][NextPath]_vars

---------------------------------------------------------------------------
(* The other endpoints: POST /characters, GET /integrations/status and     *)
(* POST /integrations/generate-advanced-video, one call at a time.         *)

\* if im.width < 10 or im.height < 10 (ai.py 70)
MinCutoutSide == 10
SAFE_AVATAR_MAX == 1024

\* the uploads: an empty file, or image bytes: whether PIL can read them,
\* the picture's size, and whether rembg's remove() returns or raises
\* (remove keeps the picture's size)
UploadSides == {5, 9, 10, 200, 2000}
Uploads ==
    {[bytes |-> 0, valid |-> FALSE, size |-> <<0, 0>>, rembg_ok |-> FALSE]}
        \cup [bytes : {1}, valid : BOOLEAN, size : UploadSides \X UploadSides,
              rembg_ok : BOOLEAN]

\* cutout_person(image_bytes): the size of the image it returns; the return
\* value is the image and nothing else (ai.py 50-89)
cutout_person(up) ==
    IF up.valid /\ up.rembg_ok /\ ~(up.size[1] < MinCutoutSide \/ up.size[2] < MinCutoutSide)
    THEN up.size
    ELSE IF up.valid THEN up.size
    ELSE <<100, 100>>

\* clamp_avatar_size: the size of the saved cutout (utils.py 16-22)
clamp_avatar_size(size) ==
    LET m == Max(size[1], size[2])
    IN IF m > SAFE_AVATAR_MAX
       THEN << TruncDiv(size[1] * SAFE_AVATAR_MAX, m), TruncDiv(size[2] * SAFE_AVATAR_MAX, m) >>
       ELSE size

\* the methods the classes define
IntegrationsAPIMethods ==
    {"check_services", "generate_portrait", "generate_talking_avatar",
     "run_comfyui_workflow", "generate_ai_image"}
AdvancedMotionMethods ==
    {"generate_enhanced_portrait", "generate_talking_video", "apply_advanced_animation",
     "_construct_animation_workflow", "enhance_character_animation"}

\* the module-level integrations_api of a running server: None when the import
\* of integrations_api failed, the IntegrationsAPI object otherwise (main.py 29-35, 170-177)
Servers == {[integrations_api |-> "None"], [integrations_api |-> "IntegrationsAPI"]}

\* the bodies sent to /integrations/generate-advanced-video
AdvancedRequests ==
    [duration_seconds : {5, 10, 30, 31}, fps : {24}, seed : {<<>>},
     prompt : {{}}, character_ids : {{1}, {2, 3}, {Len(Characters) + 1}},
     character_settings : {EmptyDict}, use_comfyui : BOOLEAN, use_stable_diffusion : BOOLEAN]

\* the bodies sent to /characters/{char_id}/edit: each field <<>> when None;
\* rotate in thousandths of a degree
EditRequests ==
    [char_id : 1..(Len(Characters) + 1), scale : {<<>>, <<500>>, <<UNIT>>},
     rotate : {<<>>, <<90000>>}, fixed_position : {<<>>, <<TRUE>>}]

\* edit_character_image: the edited image, with the scale and the rotation
\* that are baked into its pixels (utils.py 24-58); rotate(90, expand=True)
\* swaps the sides
edit_character_image(size, scale, rotate) ==
    LET scaled == IF scale # UNIT
                  THEN << TruncDiv(size[1] * scale, UNIT), TruncDiv(size[2] * scale, UNIT) >>
                  ELSE size
        turned == IF rotate % 180000 = 90000 THEN <<scaled[2], scaled[1]>> ELSE scaled
    IN [size |-> turned, scale |-> scale, rotation |-> rotate]

\* the row of the character after edit_character (main.py 388-449)
EditedRow(ch, e) ==
    LET a == IF e.scale # <<>> THEN [ch.cols EXCEPT !.scale = e.scale[1]] ELSE ch.cols
        b == IF e.rotate # <<>> THEN [a EXCEPT !.rotation = e.rotate[1]] ELSE a
        c == IF e.fixed_position # <<>> THEN [b EXCEPT !.fixed_position = e.fixed_position[1]]
             ELSE b
        updates == e.scale # <<>> \/ e.rotate # <<>>
    IN [cutout |-> ch.size, cols |-> c, meta |-> ch.meta,
        edited |-> IF updates THEN <<edit_character_image(ch.size, c.scale, c.rotation)>>
                   ELSE <<>>]

ApiCalls ==
    [op : {"create_character"}, server : Servers, upload : Uploads]
        \cup [op : {"edit_character"}, server : Servers, edit : EditRequests]
        \cup [op : {"integrations_status"}, server : Servers]
        \cup [op : {"generate_advanced_video"}, server : Servers, req : AdvancedRequests]

InitApi ==
    /\ Idle
    /\ FreshProcess
    /\ call \in ApiCalls
    /\ returned = <<>>
    /\ sampled = <<>>
    /\ table = <<>>
    /\ reply = <<>>
    /\ history = <<>>
    /\ forwarded = <<>>

\* create_character up to the return of cutout_person (main.py 192-229)
ReadUpload ==
    /\ call # <<>> /\ call.op = "create_character"
    /\ returned = <<>> /\ reply = <<>>
    /\ IF call.upload.bytes = 0
       THEN reply' = [status |-> 400, detail |-> "Empty file"] /\ UNCHANGED returned
       ELSE IF ~call.upload.valid
       THEN reply' = [status |-> 400, detail |-> "Invalid image file"] /\ UNCHANGED returned
       ELSE returned' = [cutout |-> cutout_person(call.upload)] /\ UNCHANGED reply
    /\ UNCHANGED <<call, sampled, table>>
    /\ UNCHANGED <<history, forwarded>>
    /\ UNCHANGED jobVars
    /\ UNCHANGED procVars

\* the cutout is saved, clamped and stored as the character's cutout (main.py 230-245)
StoreCharacter ==
    /\ call # <<>> /\ call.op = "create_character"
    /\ returned # <<>> /\ reply = <<>>
    /\ table' = Append(table, [cutout |-> clamp_avatar_size(returned.cutout)])
    /\ reply' = [status |-> 200, id |-> Len(table) + 1]
    /\ UNCHANGED <<call, returned, sampled>>
    /\ UNCHANGED <<history, forwarded>>
    /\ UNCHANGED jobVars
    /\ UNCHANGED procVars

\* POST /characters/{char_id}/edit (main.py 374-453)
EditCharacter ==
    /\ call # <<>> /\ call.op = "edit_character"
    /\ reply = <<>>
    /\ IF call.edit.char_id \in DOMAIN Characters
       THEN /\ table' = <<EditedRow(Characters[call.edit.char_id], call.edit)>>
            /\ reply' = [status |-> 200, id |-> call.edit.char_id]
       ELSE /\ reply' = [status |-> 404, detail |-> "Character not found"]
            /\ UNCHANGED table
    /\ UNCHANGED <<call, returned, sampled>>
    /\ UNCHANGED <<history, forwarded>>
    /\ UNCHANGED jobVars
    /\ UNCHANGED procVars

\* a later POST /generate for the edited character without per-request
\* settings: the image it loads and the settings it derives (main.py 301-344),
\* and the motion composite_video builds from them (ai.py 137-389)
GenerateEdited ==
    /\ call # <<>> /\ call.op = "edit_character"
    /\ reply # <<>> /\ reply.status = 200
    /\ returned = <<>>
    /\ LET row == table[1]
           settings == StoredSettings(row)
       IN returned' =
            [avatar |-> IF row.edited # <<>> THEN row.edited[1]
                        ELSE [size |-> row.cutout, scale |-> UNIT, rotation |-> 0],
             settings |-> settings,
             motion |-> BuildMotion(settings, "", SeedRng(<<7>>, 1)).motion]
    /\ UNCHANGED <<call, sampled, table, reply>>
    /\ UNCHANGED <<history, forwarded>>
    /\ UNCHANGED jobVars
    /\ UNCHANGED procVars

\* integrations_api.<name>(): AttributeError when the class has no such method
ApiHas(name) == name \in IntegrationsAPIMethods

\* GET /integrations/status (main.py 536-550)
IntegrationsStatus ==
    /\ call # <<>> /\ call.op = "integrations_status"
    /\ reply = <<>>
    /\ LET probes == {"is_facechain_available", "is_talking_avatar_available",
                      "is_comfyui_available", "is_stable_diffusion_available",
                      "is_avatar3d_available", "is_image_generator_available"}
       IN reply' = IF call.server.integrations_api = "None"
                   THEN [status |-> 200, available |-> FALSE, initialized |-> FALSE]
                   ELSE IF \A name \in probes : ApiHas(name)
                   THEN [status |-> 200, available |-> TRUE, initialized |-> TRUE]
                   ELSE [status |-> 500]
    /\ UNCHANGED <<call, returned, sampled, table>>
    /\ UNCHANGED <<history, forwarded>>
    /\ UNCHANGED jobVars
    /\ UNCHANGED procVars

\* the settings generate_advanced_video derives from the stored row: the
\* columns that are not None, 0.0, 1.0 or ""; False == 0.0 and True == 1.0
\* (main.py 691-705)
AdvancedStoredSettings(ch) ==
    LET c == ch.cols
        Dropped(k) == CASE k = "fixed_position" -> TRUE
                        [] k = "path_type" -> c[k] = ""
                        [] OTHER -> c[k] = 0 \/ c[k] = UNIT
        keys == {k \in {"scale", "rotation", "fixed_position", "move_range", "breathe_amount",
                        "breathe_speed", "tilt_factor", "path_type"} \cap DOMAIN c :
                    ~Dropped(k)}
        d == [k \in keys |-> c[k]]
    IN IF Has(ch.meta, "position_x") /\ Has(ch.meta, "position_y")
       THEN Put(Put(d, "position_x", ch.meta.position_x), "position_y", ch.meta.position_y)
       ELSE d

\* generate_advanced_video up to the try block (main.py 663-705)
AdvancedLoad ==
    /\ call # <<>> /\ call.op = "generate_advanced_video"
    /\ returned = <<>> /\ reply = <<>>
    /\ LET r == call.req
           chars == QueryCharacters(r.character_ids)
       IN IF call.server.integrations_api = "None"
          THEN reply' = [status |-> 503, detail |-> "Integrations not available"]
               /\ UNCHANGED returned
          ELSE IF ~(10 <= r.duration_seconds /\ r.duration_seconds <= 30)
          THEN reply' = [status |-> 400, detail |-> "duration_seconds must be 10-30"]
               /\ UNCHANGED returned
          ELSE IF chars = <<>>
          THEN reply' = [status |-> 400, detail |-> "No valid characters found"]
               /\ UNCHANGED returned
          ELSE /\ returned' =
                    [stage |-> "loaded",
                     avatars |-> [i \in 1..Len(chars) |-> Characters[chars[i]].size],
                     char_settings |->
                        LET One(i) == AdvancedStoredSettings(Characters[chars[i + 1]])
                        IN [i \in {j \in 0..(Len(chars) - 1) : DOMAIN One(j) # {}} |-> One(i)]]
               /\ UNCHANGED reply
    /\ UNCHANGED <<call, sampled, table>>
    /\ UNCHANGED <<history, forwarded>>
    /\ UNCHANGED jobVars
    /\ UNCHANGED procVars

\* the background of the advanced video (main.py 713-726); the and of Python
\* evaluates integrations_api.is_..._available() only when the flag is set
AdvancedBackground ==
    /\ call # <<>> /\ call.op = "generate_advanced_video"
    /\ returned # <<>> /\ returned.stage = "loaded" /\ reply = <<>>
    /\ LET r == call.req
       IN IF r.use_stable_diffusion /\ ~ApiHas("is_stable_diffusion_available")
          THEN reply' = [status |-> 500, detail |-> "Advanced video generation failed"]
               /\ UNCHANGED returned
          ELSE IF ~r.use_stable_diffusion /\ r.use_comfyui /\ ~ApiHas("is_comfyui_available")
          THEN reply' = [status |-> 500, detail |-> "Advanced video generation failed"]
               /\ UNCHANGED returned
          ELSE returned' = [returned EXCEPT !.stage = "background"] /\ UNCHANGED reply
    /\ LET got == get_bg_gen(bgGen, bgLoads)
       IN IF ~call.req.use_stable_diffusion /\ ~call.req.use_comfyui
          THEN /\ bgGen' = got.gen
               /\ bgLoads' = got.loads
               /\ bgReturned' = bgReturned \cup {got.instance}
          ELSE UNCHANGED procVars
    /\ UNCHANGED <<call, sampled, table>>
    /\ UNCHANGED <<history, forwarded>>
    /\ UNCHANGED jobVars

\* out_path = advanced_motion.composite_video(...) and the move to renders
\* (main.py 728-757): AttributeError when AdvancedMotion has no such method
AdvancedComposite ==
    /\ call # <<>> /\ call.op = "generate_advanced_video"
    /\ returned # <<>> /\ returned.stage = "background" /\ reply = <<>>
    /\ reply' = IF "composite_video" \in AdvancedMotionMethods
                THEN [status |-> 200, video_path |-> "renders"]
                ELSE [status |-> 500, detail |-> "Advanced video generation failed"]
    /\ UNCHANGED <<call, returned, sampled, table>>
    /\ UNCHANGED <<history, forwarded>>
    /\ UNCHANGED jobVars
    /\ UNCHANGED procVars

NextApi ==
    \/ ReadUpload
    \/ StoreCharacter
    \/ EditCharacter
    \/ GenerateEdited
    \/ IntegrationsStatus
    \/ AdvancedLoad
    \/ AdvancedBackground
    \/ AdvancedComposite

SpecApi == InitApi /\ [][NextApi]_vars

---------------------------------------------------------------------------
(* run_comfyui_workflow (integrations_api.py 164-239): one call, the       *)
(* answers of the ComfyUI server chosen by the environment.                *)

\* the most polls of one call the model follows
MaxPolls == 2

\* the outputs of a history entry: per node, in the dict's order, <<>> when
\* the node has no "images" key, else the status code of GET /view for its
\* first image
NodeOutputs == {<<>>, << <<>> >>, << <<200>> >>, << <<404>> >>, << <<>>, <<200>> >>,
                << <<404>>, <<200>> >>}

\* history[prompt_id]: status <<>> when the entry has no "status" key
HistoryEntries == [status : {<<>>, <<"running">>, <<"complete">>, <<"error">>},
                   outputs : NodeOutputs]

\* what requests.get(f"{COMFYUI_URL}/history/{prompt_id}") gives: a
\* RequestException, or a response whose JSON has the prompt id (entry) or not
HistoryResponses ==
    {[kind |-> "RequestException"], [kind |-> "response", code |-> 500, entry |-> <<>>]}
        \cup [kind : {"response"}, code : {200}, entry : {<<>>} \cup {<<e>> : e \in HistoryEntries}]

PromptResponses ==
    {[kind |-> "RequestException"], [kind |-> "response", code |-> 500],
     [kind |-> "response", code |-> 200]}

ComfyCalls == [op : {"run_comfyui_workflow"}, input_images : 0..1]

Raised(e) == [kind |-> "raise", error |-> e]

RECURSIVE FirstImage(_, _)
\* integrations_api.py 220-229: the first node whose first image downloads
FirstImage(outputs, k) ==
    IF k > Len(outputs) THEN 0
    ELSE IF outputs[k] # <<>> /\ outputs[k][1] = 200 THEN k
    ELSE FirstImage(outputs, k + 1)

\* integrations_api.py 211-235: what one poll makes of its answer, <<>> when
\* the loop goes round again
AfterPoll(resp) ==
    IF resp.kind = "RequestException" THEN Raised("RequestException")
    ELSE IF resp.code # 200 THEN <<>>
    ELSE IF resp.entry = <<>> THEN Raised("KeyError")
    ELSE LET entry == resp.entry[1]
         IN IF entry.status = <<"complete">>
            THEN IF FirstImage(entry.outputs, 1) > 0
                 THEN [kind |-> "return", image |-> FirstImage(entry.outputs, 1)]
                 ELSE Raised("No output images found in ComfyUI workflow result")
            ELSE IF entry.status = <<"error">>
            THEN Raised("ComfyUI workflow execution error")
            ELSE <<>>

\* the server forgets no prompt: once the history has the id, it keeps it
HasEntry(resp) == IF resp.kind = "response" THEN resp.code = 200 /\ resp.entry # <<>> ELSE FALSE
ServerMayAnswer(resp) ==
    IF Len(history) >= 2 /\ HasEntry(history[Len(history)]) /\ resp.kind = "response"
    THEN resp.code # 200 \/ resp.entry # <<>>
    ELSE TRUE

InitComfy ==
    /\ Idle
    /\ FreshProcess
    /\ call \in ComfyCalls
    /\ returned = <<>>
    /\ sampled = <<>>
    /\ table = <<>>
    /\ reply = <<>>
    /\ history = <<>>
    /\ forwarded = <<>>

\* integrations_api.py 196-207: queue the prompt
QueuePrompt ==
    /\ call # <<>> /\ call.op = "run_comfyui_workflow"
    /\ history = <<>>
    /\ \E resp \in PromptResponses :
         /\ history' = <<resp>>
         /\ returned' = IF resp.kind = "RequestException" THEN Raised("RequestException")
                        ELSE IF resp.code # 200
                        THEN Raised("ComfyUI workflow submission failed")
                        ELSE <<>>
    /\ UNCHANGED <<call, sampled, table, reply, forwarded>>
    /\ UNCHANGED jobVars
    /\ UNCHANGED procVars

\* integrations_api.py 209-235: one round of the while True loop
PollHistory ==
    /\ call # <<>> /\ call.op = "run_comfyui_workflow"
    /\ history # <<>>
    /\ returned = <<>>
    /\ Len(history) <= MaxPolls
    /\ \E resp \in HistoryResponses :
         /\ ServerMayAnswer(resp)
         /\ history' = Append(history, resp)
         /\ returned' = AfterPoll(resp)
    /\ UNCHANGED <<call, sampled, table, reply, forwarded>>
    /\ UNCHANGED jobVars
    /\ UNCHANGED procVars

NextComfy == QueuePrompt \/ PollHistory

SpecComfy == InitComfy /\ [][NextComfy]_vars

---------------------------------------------------------------------------
(* IPWhitelistMiddleware (middleware.py 62-124): one request through       *)
(* dispatch and, when it is let through, the rest of the application.      *)

\* a line of allowed_ips.conf and a request path are the sequences of the
\* pieces they are written with; a path that begins with the text /message
\* or /inspector has that text as its first piece
ConfigFiles == {<<>>, << <<"#", " ", "office", "\n">>, <<"\n">> >>,
                << <<"#", " ", "office", "\n">>, <<"10.0.0.5", "\n">> >>,
                << <<"10.0.0.5", "\n">>, <<"\n">>, <<" ", "10.0.0.6", " ", "\n">> >>}
Paths == {<<"/generate">>, <<"/characters", "/1", "/edit">>, <<"/message">>,
          <<"/message", "s">>, <<"/inspector", "/debug">>, <<"/api", "/message">>}
\* request.client.host, <<>> when request.client is None
ClientHosts == {<<>>, <<"127.0.0.1">>, <<"localhost">>, <<"::1">>, <<"10.0.0.5">>,
                <<"10.0.0.6">>, <<"10.0.0.9">>}
\* os.environ: DEVELOPMENT_MODE, <<>> when unset
Environments == {<<>>, <<"false">>, <<"true">>, <<"True">>, <<"1">>}

Whitespace == {" ", "\n"}
RECURSIVE LStrip(_)
LStrip(line) ==
    IF line # <<>> /\ line[1] \in Whitespace THEN LStrip(Tail(line)) ELSE line
RECURSIVE RStrip(_)
RStrip(line) ==
    IF line # <<>> /\ line[Len(line)] \in Whitespace
    THEN RStrip(SubSeq(line, 1, Len(line) - 1))
    ELSE line
\* str.strip
Strip(line) == RStrip(LStrip(line))
\* str.startswith
StartsWith(text, prefix) == text # <<>> /\ text[1] = prefix
\* str.lower
Lower(text) == IF text = "True" THEN "true" ELSE text

RECURSIVE LoadedIps(_)
\* middleware.py 85-91: the lines of the config file that are kept
LoadedIps(lines) ==
    IF lines = <<>> THEN <<>>
    ELSE LET line == Strip(lines[1])
         IN (IF line # <<>> /\ ~StartsWith(line, "#") THEN <<line>> ELSE <<>>)
                \o LoadedIps(Tail(lines))

\* IPWhitelistMiddleware.__init__ (middleware.py 65-92)
IPWhitelistMiddleware(whitelisted_ips, config_file, enabled) ==
    [enabled |-> enabled, whitelisted_ips |-> whitelisted_ips \o LoadedIps(config_file)]

\* client_ip in ['127.0.0.1', 'localhost', '::1']
IsLocalhost(client_ip) == client_ip \in {<<"127.0.0.1">>, <<"localhost">>, <<"::1">>}

WhitelistedOrUnknown(client_ip, ips) ==
    client_ip = <<>> \/ \E i \in 1..Len(ips) : ips[i] = client_ip
\* client_ip in self.whitelisted_ips (middleware.py 116)
Whitelisted(client_ip, ips) == \E i \in 1..Len(ips) : ips[i] = client_ip

\* request.url.path.startswith('/message') or ...startswith('/inspector')
WebSocketPath(path) == StartsWith(path, "/message") \/ StartsWith(path, "/inspector")

\* development_mode (middleware.py 97)
DevelopmentMode(env) == Lower(IF env = <<>> THEN "false" ELSE env[1]) = "true"

\* dispatch (middleware.py 94-124): TRUE when the request goes to call_next
LetThrough(mw, env, client_ip, path) ==
    IF DevelopmentMode(env) THEN TRUE
    ELSE IF ~mw.enabled \/ mw.whitelisted_ips = <<>> THEN TRUE
    ELSE IF IsLocalhost(client_ip) THEN TRUE
    ELSE IF WebSocketPath(path) THEN TRUE
    ELSE Whitelisted(client_ip, mw.whitelisted_ips)

GateCalls ==
    [op : {"dispatch"},
     middleware : {IPWhitelistMiddleware(<<>>, f, e) : f \in ConfigFiles, e \in BOOLEAN},
     env : Environments, client : ClientHosts, path : Paths]

InitGate ==
    /\ Idle
    /\ FreshProcess
    /\ call \in GateCalls
    /\ returned = <<>>
    /\ sampled = <<>>
    /\ table = <<>>
    /\ reply = <<>>
    /\ history = <<>>
    /\ forwarded = <<>>

\* IPWhitelistMiddleware.dispatch up to its return or its call of call_next
Dispatch ==
    /\ call # <<>> /\ call.op = "dispatch"
    /\ reply = <<>> /\ forwarded = <<>>
    /\ IF LetThrough(call.middleware, call.env, call.client, call.path)
       THEN /\ forwarded' = <<[client |-> call.client, path |-> call.path]>>
            /\ UNCHANGED reply
       ELSE /\ reply' = [status |-> 403, detail |-> "Access denied. Your IP is not allowed."]
            /\ UNCHANGED forwarded
    /\ UNCHANGED <<call, returned, sampled, table, history>>
    /\ UNCHANGED jobVars
    /\ UNCHANGED procVars

\* return await call_next(request): the answer of the rest of the application
CallNext ==
    /\ call # <<>> /\ call.op = "dispatch"
    /\ forwarded # <<>> /\ reply = <<>>
    /\ \E status \in {200, 404} : reply' = [status |-> status, detail |-> ""]
    /\ UNCHANGED <<call, returned, sampled, table, history, forwarded>>
    /\ UNCHANGED jobVars
    /\ UNCHANGED procVars

NextGate == Dispatch \/ CallNext

SpecGate == InitGate /\ [][NextGate]_vars

---------------------------------------------------------------------------
(* Claims C1 - C10                                                         *)

\* the job and the one before it were given the same non-null seed, the same
\* number of sprites and the same per-sprite settings (the canvas is Width x Height)
SameSeedAndSettings ==
    /\ prevJob # NoJob
    /\ req.seed # <<>>
    /\ req.seed = prevJob.seed
    /\ Len(avatars) = prevJob.sprites
    /\ DOMAIN charSettings = DOMAIN prevJob.settings
    /\ \A i \in DOMAIN charSettings : charSettings[i] = prevJob.settings[i]

\* every motion built so far is the one the previous job built for that sprite
SameMotions == \A i \in DOMAIN motions : motions[i] = prevJob.motions[i]

\* C1 as stated: two calls of composite_video with the same non-null seed,
\* canvas size, number of sprites and per-sprite settings build an identical
\* control-point path and identical motion parameters for every sprite.
C1_Original == SameSeedAndSettings => SameMotions

\* C1 amended: two calls of composite_video with the same non-null seed, canvas
\* size, number of sprites, per-sprite settings and the same text prompt build,
\* for every sprite, an identical control-point path and identical motion
\* parameters.
C1_Determinism == (SameSeedAndSettings /\ req.prompt = prevJob.prompt) => SameMotions

C1_Witness ==
    /\ SameSeedAndSettings
    /\ req.prompt = prevJob.prompt
    /\ pc = "Rendering"
    /\ Len(motions) = 2
    /\ SameMotions

C3_StageOrder ==
    LET n == req.duration_seconds * req.fps
    IN /\ rendered # <<>> => (Len(motions) = Len(avatars) /\ framesDir # <<>>)
       /\ \A p \in DOMAIN rendered : rendered[p] = p - 1
       /\ Len(encoderRuns) <= 1
       /\ encoderRuns # <<>> => (Len(rendered) = n /\ rendered[n] = n - 1)
       /\ pc \in {"Encoded", "Done"} => (Len(encoderRuns) = 1 /\ encoderRuns[1].ok)
       /\ pc \in {"Received", "Validated", "Loaded", "BgReady", "Building", "Rejected"}
             => (rendered = <<>> /\ encoderRuns = <<>>)

C3_Witness == pc = "Done" /\ Len(rendered) = MinDuration * req.fps /\ Len(motions) = 2

\* C4 depth order: in every frame written, the sprites are composited in
\* ascending order of the y coordinate each is drawn at.
C4_DepthOrder ==
    \A name \in DOMAIN frameFiles :
        LET drawn == frameFiles[name].drawn
        IN \A a, b \in DOMAIN drawn : a < b => drawn[a].y <= drawn[b].y

\* C5 validation before work: once the duration check has run, a request
\* whose duration_seconds is outside 10..25 is rejected with status 400; once
\* the characters are loaded, a request whose ids resolve to no character is
\* rejected with status 400; a rejected request has generated no background,
\* built no path, made no frame directory, rendered no frame and run no
\* encoder; duration_seconds = 25 is not rejected by the duration check.
C5_Validation ==
    LET d == req.duration_seconds
        rejected == pc = "Rejected" /\ response # <<>> /\ response.status = 400
    IN /\ (pc # "Received" /\ (d < 10 \/ d > 25)) => rejected
       /\ (pc \notin {"Received", "Validated"} /\ req.character_ids \cap DOMAIN Characters = {})
             => rejected
       /\ pc = "Rejected" =>
             /\ bgCalls = 0
             /\ motions = <<>>
             /\ framesDir = <<>>
             /\ rendered = <<>>
             /\ encoderRuns = <<>>
       /\ (d = 25 /\ pc = "Rejected") => response.detail = "No valid characters found"
       /\ (d = 25 /\ req.character_ids \cap DOMAIN Characters # {}) => pc # "Rejected"

C5_Witness == pc = "Rejected" /\ req.duration_seconds = 5 /\ bgCalls = 0

\* C6 teardown: when composite_video has returned or raised, the temporary
\* frame directory it created no longer exists.
C6_Teardown ==
    (pc \in {"Encoded", "Done", "Failed"} /\ framesDir # <<>>) => framesDir[1] \notin tmpDirs

\* C7 encoder failure: when the encoder invocation fails, the handler has
\* failed (composite_video raised and returned no path), the encoder was
\* invoked exactly once, no file is in the renders directory and the
\* response carries no video_path.
C7_EncoderFailure ==
    \A k \in DOMAIN encoderRuns :
        ~encoderRuns[k].ok =>
            /\ pc = "Failed"
            /\ failure = "encode"
            /\ Len(encoderRuns) = 1
            /\ renders = {}
            /\ encoderRuns[k].out \notin tmpFiles
            /\ "video_path" \notin DOMAIN response
            /\ response.status = 500

C7_Witness == encoderRuns # <<>> /\ ~encoderRuns[1].ok /\ pc = "Failed"

\* the target size of sprite i (1-based) in frame f
TargetSize(i, f) ==
    LET tr == Transform(motions[i], SettingsOf(charSettings, i - 1), avatars[i],
                        FrameTime(f, req.duration_seconds * req.fps))
    IN <<tr.aw, tr.ah>>

Degenerate(i, f) == TargetSize(i, f)[1] < 5 \/ TargetSize(i, f)[2] < 5

DrawnIn(name) == {frameFiles[name].drawn[k].sprite : k \in DOMAIN frameFiles[name].drawn}

\* C8 degenerate sprite: in every frame written, a sprite is composited
\* exactly when its target width and height are both at least 5 pixels, so
\* a sprite below 5 pixels is left out of that frame only and every other
\* sprite of the frame is composited; the sprites of a frame in which a
\* sprite operation raised were not all degenerate (the skip itself does
\* not raise).
C8_DegenerateSkip ==
    /\ \A name \in DOMAIN frameFiles :
          \A i \in DOMAIN avatars :
              (i \in DrawnIn(name)) <=> ~Degenerate(i, frameFiles[name].index)
    /\ (pc = "Failed" /\ failure = "sprite") =>
          \E i \in DOMAIN avatars : ~Degenerate(i, Len(rendered))

\* a frame leaves a sprite out and composites another, and a later frame
\* composites the sprite that was left out
C8_Witness ==
    \E a, b \in DOMAIN frameFiles : \E i \in DOMAIN avatars :
        /\ frameFiles[a].index < frameFiles[b].index
        /\ i \notin DrawnIn(a)
        /\ DrawnIn(a) # {}
        /\ i \in DrawnIn(b)

\* C9 enrichment is best effort: a sprite whose enrichment call raised has
\* its motion built from its original settings, unchanged, and the failure
\* of the enrichment is not a failure of the job.
C9_Enrichment ==
    /\ \A i \in DOMAIN motions :
          enrichErr[i] =>
              /\ DOMAIN used[i] = DOMAIN SettingsOf(charSettings, i - 1)
              /\ \A key \in DOMAIN used[i] : used[i][key] = charSettings[i - 1][key]
    /\ pc = "Failed" => failure \in {"sprite", "encode"}

C9_Witness ==
    /\ pc = "Done"
    /\ Len(motions) = 2
    /\ enrichErr = <<TRUE, TRUE>>
    /\ req.prompt = {"dance"}

\* C10 graceful degradation: an error raised while resizing, rotating or
\* compositing a sprite never terminates the job.
C10_Graceful == ~(pc = "Failed" /\ failure = "sprite")

---------------------------------------------------------------------------
(* Claims C11 - C20                                                        *)

C12_Periodic ==
    (sampled # <<>> /\ Len(returned.control_points) >= 2) => sampled.at = sampled.next

\* the call is for a moving sprite with a supplied base position
MovingCall ==
    /\ call # <<>>
    /\ Has(call.settings, "position_x") /\ Has(call.settings, "position_y")
    /\ ~Get(call.settings, "fixed_position", FALSE)

InMarginBox(pt) ==
    /\ Margin <= pt[1] /\ pt[1] <= Width - Margin
    /\ Margin <= pt[2] /\ pt[2] <= Height - Margin

\* C13 path bounds: for a sprite with a supplied base position and a circle,
\* figure8, wave or organic style, every point of the control-point path lies
\* within [margin, width - margin] x [margin, height - margin], for any base
\* position.
C13_PathBounds ==
    (MovingCall /\ returned # <<>>
        /\ returned.path_type \in {"circle", "figure8", "wave", "organic"})
    => \A q \in DOMAIN returned.control_points : InMarginBox(returned.control_points[q])

Abs(v) == IF v >= 0 THEN v ELSE -v

\* every point of the path is within d of the point base on each axis
Within(points, base, d) ==
    \A q \in DOMAIN points :
        Abs(points[q][1] - base[1]) <= d /\ Abs(points[q][2] - base[2]) <= d

\* C14 fixed-position sprites: for every sprite whose settings set
\* fixed_position to true, whether or not position_x and position_y are also
\* supplied, the path is the fixed-micro path: exactly 8 points, each within
\* micro_movement (default 2% of the smaller canvas side) of one constant base
\* position on each axis; the base is the supplied position when there is one.
C14_FixedMicro ==
    (call # <<>> /\ returned # <<>> /\ Get(call.settings, "fixed_position", FALSE)) =>
        LET pts == returned.control_points
            micro == Get(call.settings, "micro_movement", (Min(Width, Height) * 20) \div UNIT)
        IN /\ Len(pts) = 8
           /\ \E bx \in 0..Width : \E by \in 0..Height : Within(pts, <<bx, by>>, micro)
           /\ Has(call.settings, "position_x") =>
                 Within(pts, <<call.settings.position_x, call.settings.position_y>>, micro)

\* move_range in pixels: the option (default 0.4) times the smaller canvas side (ai.py 173)
MoveRangePx == Mul(Get(call.settings, "move_range", 400), Min(Width, Height))

\* the anchors of a path the spline built with 4 points per anchor
AnchorsOf(points) == [j \in 1..(Len(points) \div 4) |-> points[4 * (j - 1) + 1]]

\* the distance of every anchor of the returned path from the base is within
\* [0.7 * move_range, move_range]; the model's pixel and sine rounding is
\* allowed for with 2 pixels on either side
AnchorsInRing ==
    LET bx == call.settings.position_x
        by == call.settings.position_y
        anchors == AnchorsOf(returned.control_points)
        lo == Mul(MoveRangePx, 700) - 2
        hi == MoveRangePx + 2
    IN \A j \in DOMAIN anchors :
          LET d2 == (anchors[j][1] - bx) * (anchors[j][1] - bx)
                      + (anchors[j][2] - by) * (anchors[j][2] - by)
          IN lo * lo <= d2 /\ d2 <= hi * hi

CircleCall == MovingCall /\ returned # <<>> /\ returned.path_type = "circle"

\* the base is at least move_range away from every side of the margin box
BaseHasClearance ==
    /\ Margin + MoveRangePx <= call.settings.position_x
    /\ call.settings.position_x <= Width - Margin - MoveRangePx
    /\ Margin + MoveRangePx <= call.settings.position_y
    /\ call.settings.position_y <= Height - Margin - MoveRangePx

\* C15 as stated: for the circle style, every anchor's distance from the base
\* point lies within [0.7 * move_range, 1.0 * move_range], for any base
\* position on the canvas.
C15_Original == CircleCall => AnchorsInRing

\* C15 amended: for the circle style, every anchor's distance from the base
\* point lies within [0.7 * move_range, 1.0 * move_range] (move_range in
\* pixels), for any base position at least move_range away from every side
\* of the margin box.
C15_CircleRadius == (CircleCall /\ BaseHasClearance) => AnchorsInRing

C15_Witness ==
    /\ CircleCall
    /\ BaseHasClearance
    /\ MoveRangePx = 100
    /\ AnchorsInRing
    /\ Len(returned.control_points) >= 24

\* C16 job isolation: a job and the job before it never use the same
\* temporary frame directory nor the same output video path, and when both
\* have completed the renders directory holds the video of each (the later
\* job did not overwrite the earlier one's video).
C16_Isolation ==
    prevJob # NoJob =>
        /\ (framesDir # <<>> /\ prevJob.framesDir # <<>>) => framesDir # prevJob.framesDir
        /\ \A j \in DOMAIN prevJob.encoderRuns : \A k \in DOMAIN encoderRuns :
              encoderRuns[k].out # prevJob.encoderRuns[j].out
        /\ (pc = "Done" /\ prevJob.encoderRuns # <<>> /\ prevJob.encoderRuns[1].ok)
              => Cardinality(renders) = 2

\* C17 sprite provider minimum size: when the segmentation result is smaller
\* than the minimum usable size (width or height below 10 pixels),
\* cutout_person rejects or flags it, so create_character stores no cutout
\* for that upload and does not answer it as a success.
C17_MinimumSize ==
    (call # <<>> /\ call.op = "create_character"
        /\ (call.upload.size[1] < MinCutoutSide \/ call.upload.size[2] < MinCutoutSide))
    => (table = <<>> /\ (reply # <<>> => reply.status # 200))

\* C18 advanced video generation succeeds: whenever the integrations API is
\* initialised and a requested character exists, the answer of
\* POST /integrations/generate-advanced-video to a well-formed request (the
\* 5 seconds the test sends, or 10 to 30 seconds) has status 200 and carries
\* the path of a rendered video.
C18_AdvancedSucceeds ==
    (call # <<>> /\ call.op = "generate_advanced_video" /\ reply # <<>>
        /\ call.server.integrations_api # "None"
        /\ call.req.duration_seconds \in {5} \cup (10..30)
        /\ QueryCharacters(call.req.character_ids) # <<>>)
    => (reply.status = 200 /\ "video_path" \in DOMAIN reply)

\* C19 integrations status is always answerable: the answer of
\* GET /integrations/status has status 200, both when the integrations API
\* object was initialised and when it was not.
C19_StatusAnswerable ==
    (call # <<>> /\ call.op = "integrations_status" /\ reply # <<>>) => reply.status = 200

\* C20 explicit rotation is honoured: when the rotation option is supplied,
\* angle_base of the sprite's motion data equals the supplied value, for every
\* path style; when it is not supplied, angle_base is the seeded default
\* rng.uniform(-8, 8), the third draw of the sprite's iteration.
C20_Rotation ==
    (call # <<>> /\ "settings" \in DOMAIN call /\ returned # <<>>) =>
        IF Has(call.settings, "rotation")
        THEN returned.angle_base = call.settings.rotation
        ELSE returned.angle_base = Uniform(-8000, 8000, R(SeedRng(<<call.seed>>, 1), 3))

---------------------------------------------------------------------------
(* Claims C21 - C30                                                        *)

\* C21 closed path: the position sampled at the end of the last traversed
\* segment (tau = 0.999, where the eased segment parameter is within a
\* ten-thousandth of 1) is the position at tau = 0, to within 1 pixel on each
\* axis: there is no jump at the wrap point.
C21_ClosedPath ==
    (call # <<>> /\ "tau" \in DOMAIN call /\ call.tau = UNIT - 1 /\ sampled # <<>>) =>
        LET start == get_path_position(returned.control_points, 0)
        IN Abs(sampled.at[1] - start[1]) <= 1 /\ Abs(sampled.at[2] - start[2]) <= 1

\* C22 settings precedence per option: once the characters are loaded, for
\* every sprite and every option that the request's settings for its
\* character or the character's stored row supplies, the settings handed to
\* the render hold the request's value if the request has one and the stored
\* value otherwise.
C22_Precedence ==
    pc \in {"Loaded", "BgReady", "Building", "Rendering", "Encoded", "Done", "Failed"} =>
        LET chars == QueryCharacters(req.character_ids)
        IN \A i \in DOMAIN chars :
              LET stored == StoredSettings(Characters[chars[i]])
                  sent == SettingsOf(req.character_settings, chars[i])
                  passed == SettingsOf(charSettings, i - 1)
              IN \A key \in DOMAIN stored \cup DOMAIN sent :
                    /\ key \in DOMAIN passed
                    /\ passed[key] = IF key \in DOMAIN sent THEN sent[key] ELSE stored[key]

\* C23 both generation endpoints derive the same settings: for the same
\* stored characters and no per-request settings, the per-sprite settings map
\* /integrations/generate-advanced-video builds is the map /generate builds.
C23_SameSettings ==
    (call # <<>> /\ call.op = "generate_advanced_video" /\ returned # <<>>
        /\ call.req.character_settings = EmptyDict)
    => returned.char_settings
          = MergeSettings(QueryCharacters(call.req.character_ids), EmptyDict)

\* C24 lazy single load: over the requests one process handles, the
\* BackgroundGenerator is constructed at most once, every call of get_bg_gen
\* returned the same instance, and that instance is the one _bg_gen holds.
C24_SingleLoad ==
    /\ bgLoads <= 1
    /\ Cardinality(bgReturned) <= 1
    /\ bgReturned # {} => (bgGen # <<>> /\ bgReturned = {bgGen[1]})
    /\ bgCalls > 0 => bgLoads = 1

\* the second job of the process has its background and the first had one too
C24_Witness ==
    /\ prevJob # NoJob
    /\ prevJob.motions # <<>>
    /\ bgCalls = 1
    /\ bgLoads = 1
    /\ bgReturned = {1}

\* sprite i (1-based) has a base position and is not fixed: its path is
\* built in one of the styles circle, figure8, wave, organic
StyledSprite(i) ==
    /\ Has(used[i], "position_x") /\ Has(used[i], "position_y")
    /\ ~Get(used[i], "fixed_position", FALSE)

\* C25 path-style tag is per sprite: the path_type recorded in a sprite's
\* motion data is the style its own path was built in when its settings name
\* one, and 'organic', the tag of a sprite built first, when its path is the
\* fully random or the fixed-micro path; it is never the style of an earlier
\* sprite of the job.
C25_OwnPathType ==
    \A i \in DOMAIN motions :
        IF StyledSprite(i)
        THEN Has(used[i], "path_type") => motions[i].path_type = used[i].path_type
        ELSE motions[i].path_type = "organic"

\* the control-point path and the motion parameters of a motion, without its tag
PathAndParameters(m) ==
    <<m.control_points, m.scale_base, m.scale_target, m.angle_base, m.breathe_amount,
      m.breathe_speed, m.pulse_amount, m.pulse_speed, m.rotation_speed>>

\* C26 sprite independence under a fixed seed: when a job and the job before
\* it have the same non-null seed and prompt, a sprite that has the same index
\* and the same settings of its own in both has the same control-point path
\* and motion parameters in both, whatever the settings of the sprites before
\* it in the list.
C26_Independence ==
    (prevJob # NoJob /\ req.seed # <<>> /\ req.seed = prevJob.seed
        /\ req.prompt = prevJob.prompt)
    => \A i \in DOMAIN motions \cap DOMAIN prevJob.motions :
          ((i - 1 \in DOMAIN charSettings <=> i - 1 \in DOMAIN prevJob.settings)
              /\ SettingsOf(charSettings, i - 1) = SettingsOf(prevJob.settings, i - 1))
          => PathAndParameters(motions[i]) = PathAndParameters(prevJob.motions[i])

\* C27 stored scale and rotation are applied once: for a character edited
\* with a scale or a rotation, the sprite a later /generate without
\* per-request settings renders does not have the stored scale both baked
\* into the image it loads and as the motion's scale_base, nor the stored
\* rotation both baked into the image and as the motion's angle_base.
C27_AppliedOnce ==
    (call # <<>> /\ call.op = "edit_character" /\ returned # <<>>) =>
        /\ ~(returned.avatar.scale # UNIT /\ returned.motion.scale_base = returned.avatar.scale)
        /\ ~(returned.avatar.rotation # 0
               /\ returned.motion.angle_base = returned.avatar.rotation)

\* C28 enrichment only fills gaps: the settings enhance_character_animation
\* returns for a sprite hold, for each of path_type, move_range,
\* breathe_amount and breathe_speed that the settings it received already
\* had, the value it received, whatever the avatar image and the prompt.
C28_OnlyFillsGaps ==
    \A i \in 1..Len(used) :
        LET received == SettingsOf(charSettings, i - 1)
        IN \A k \in {"path_type", "move_range", "breathe_amount", "breathe_speed"} :
               Has(received, k) => (Has(used[i], k) /\ used[i][k] = received[k])

\* the last answer is an answer to a poll
Polled == call # <<>> /\ call.op = "run_comfyui_workflow" /\ Len(history) >= 2
LastPoll == history[Len(history)]
Answered(resp) == IF resp.kind = "response" THEN resp.code = 200 ELSE FALSE

\* C29 ComfyUI polling protocol: after a poll whose history answer does not
\* yet contain the prompt id, or whose status is neither complete nor error,
\* run_comfyui_workflow has neither returned nor raised (it polls again);
\* after a poll whose status is complete with an output image it has
\* returned the image; after a poll whose status is error it has raised.
C29_Polling ==
    (Polled /\ Answered(LastPoll)) =>
        IF LastPoll.entry = <<>> THEN returned = <<>>
        ELSE LET entry == LastPoll.entry[1]
             IN /\ entry.status \notin {<<"complete">>, <<"error">>} => returned = <<>>
                /\ (entry.status = <<"complete">> /\ FirstImage(entry.outputs, 1) > 0) =>
                       (returned # <<>> /\ returned.kind = "return")
                /\ entry.status = <<"error">> =>
                       (returned # <<>> /\ returned.kind = "raise")

\* the middleware is enabled with a non-empty whitelist, development mode is
\* off, and the client is neither a localhost address nor in the whitelist
OutsiderRequest ==
    /\ call # <<>> /\ call.op = "dispatch"
    /\ call.middleware.enabled
    /\ call.middleware.whitelisted_ips # <<>>
    /\ ~DevelopmentMode(call.env)
    /\ ~IsLocalhost(call.client)
    /\ \A i \in 1..Len(call.middleware.whitelisted_ips) :
           call.middleware.whitelisted_ips[i] # call.client

\* C30 as stated: such a request is never handed to the downstream handler
\* and its answer is 403, whatever its path.
C30_Original ==
    OutsiderRequest => (forwarded = <<>> /\ (reply # <<>> => reply.status = 403))

\* C30 IP whitelist enforcement: with the middleware enabled, a non-empty
\* whitelist and development mode off, a request whose client IP is neither
\* a localhost address nor in the whitelist, and whose path does not start
\* with /message or /inspector, is never handed to the downstream handler
\* and is answered with 403.
C30_Enforced ==
    (OutsiderRequest /\ ~WebSocketPath(call.path)) =>
        (forwarded = <<>> /\ (reply # <<>> => reply.status = 403))

C30_Witness ==
    /\ OutsiderRequest
    /\ ~WebSocketPath(call.path)
    /\ reply # <<>> /\ reply.status = 403
    /\ forwarded = <<>>

====
